---------------------------- MODULE Spec2Model ----------------------------
(***************************************************************************)
(* A model of the Wordle analyzer's game engine (gameEngine.js): the       *)
(* pattern calculator, the answer filter and the game session, as the      *)
(* source computes them.                                                   *)
(*                                                                         *)
(* Words are sequences of one-character strings, a pattern is a sequence   *)
(* of colors, a session ("game") is a record with the fields of the        *)
(* object newGame returns.                                                 *)
(***************************************************************************)
EXTENDS Integers, Sequences, FiniteSets, TLC

VARIABLES
    game,       \* the session the caller holds (useState(newGame()))
    prevGame,   \* the session passed to the last guess call (the new session, if none since newGame)
    lastOp,     \* the last step that set the session: "init", "newGame", "guess", "cheatEnter", "timer"; "input" if none since the last key or click
    lastWord,   \* the word passed to the last guess call, or entered last in cheat mode
    alerted,    \* whether the last guess call raised alert("Game is already over ...")
    call,       \* the last call of a pure function: its arguments and return value
    input,      \* the letters typed so far (keyboardRef.getInput())
    cheatColors,\* the colors set on the tiles of the typed word (useState(Array(5).fill(COLORS.EMPTY)))
    timers,     \* the setTimeout callbacks not yet run, oldest first: the gameUpdate each one holds
                \* and the user actions its 2 s still leave room for
    rejected,   \* the session held when the last guess was rejected in cheat mode, while the
                \* user has done nothing since; NoSession otherwise
    gameMode,   \* the play mode chosen (useState(initialGameMode))
    hintsModalIsOpen, \* whether the hints dialog is open (useState(false))
    openTimers  \* the setTimeout(() => setHintsModalIsOpen(true), 200) callbacks not yet run

uiVars == <<gameMode, hintsModalIsOpen, openTimers>>

appVars == <<input, cheatColors, timers, rejected, uiVars>>

vars == <<game, prevGame, lastOp, lastWord, alerted, call, input, cheatColors, timers, rejected,
          gameMode, hintsModalIsOpen, openTimers>>

-----------------------------------------------------------------------------
(* Bounds of the model *)

\* how many letters of Alphabet the words fed to calculatePattern are built from
AlphabetSize == 4
\* how many words of the answer list the dictionary holds
NumAnswers == 3

\* the word length of the game (the keyboard's maxLength, the dictionary's words)
WORD_LEN == 5

-----------------------------------------------------------------------------
(* COLORS and GAME_STATE *)

GREEN == "green"
YELLOW == "yellow"
GREY == "grey"
EMPTY == "empty"
\* a slot of `new Array(WORD_SIZE)` that has not been assigned, or an index past the end
UNDEFINED == "undefined"

PLAYING == "playing"
WON == "won"
LOST == "lost"

\* GAME_MODES
HINTS == "Hints"
NO_HINTS == "No Hints"
CHEAT == "Cheat"

\* the null of the error field
NULL == "null"
NOT_IN_WORD_LIST == "Not in word list"

-----------------------------------------------------------------------------
(* Strings *)

UpperCase == <<"A", "B", "C", "D", "E", "F", "G", "H", "I", "J", "K", "L", "M",
               "N", "O", "P", "Q", "R", "S", "T", "U", "V", "W", "X", "Y", "Z">>
LowerCase == <<"a", "b", "c", "d", "e", "f", "g", "h", "i", "j", "k", "l", "m",
               "n", "o", "p", "q", "r", "s", "t", "u", "v", "w", "x", "y", "z">>

\* the lower-case letter of each upper-case letter, and the reverse
LowerOf == [c \in {UpperCase[k] : k \in 1..26} |->
               LowerCase[CHOOSE k \in 1..26 : UpperCase[k] = c]]
UpperOf == [c \in {LowerCase[k] : k \in 1..26} |->
               UpperCase[CHOOSE k \in 1..26 : LowerCase[k] = c]]

\* String.prototype.toLowerCase, letter by letter
toLowerCase(word) ==
    [i \in 1..Len(word) |->
        IF word[i] \in DOMAIN LowerOf THEN LowerOf[word[i]] ELSE word[i]]

\* String.prototype.toUpperCase, letter by letter
toUpperCase(word) ==
    [i \in 1..Len(word) |->
        IF word[i] \in DOMAIN UpperOf THEN UpperOf[word[i]] ELSE word[i]]

\* String.prototype.charAt with a 1-based index: "" past the end
charAt(word, i) == IF i \in 1..Len(word) THEN word[i] ELSE ""

\* word.indexOf(letter) >= 0
hasLetter(word, letter) == \E i \in 1..Len(word) : word[i] = letter

\* Array.prototype.includes
includes(list, x) == \E i \in 1..Len(list) : list[i] = x

\* Array element access: undefined past the end
at(list, i) == IF i \in 1..Len(list) THEN list[i] ELSE UNDEFINED

Min(a, b) == IF a < b THEN a ELSE b

-----------------------------------------------------------------------------
(* The dictionary (wordleWords.js): lower-case words of WORD_LEN letters *)

\* answers, of which the dictionary holds the first NumAnswers
AnswerWords ==
    << <<"c", "r", "a", "n", "e">>,
       <<"a", "b", "b", "e", "y">>,
       <<"c", "r", "a", "v", "e">>,
       <<"b", "i", "l", "l", "y">>,
       <<"c", "r", "a", "n", "k">> >>

possibleAnswers == SubSeq(AnswerWords, 1, NumAnswers)

\* the words that may be guessed but are never the solution
allowedGuesses == << <<"e", "b", "b", "e", "d">> >>

Range(s) == {s[i] : i \in 1..Len(s)}

-----------------------------------------------------------------------------
(* calculatePattern *)

\* countOccurrences(answer, letter): answer.split(letter).length - 1
countOccurrences(answer, letter) ==
    Cardinality({i \in 1..Len(answer) : answer[i] = letter})

\* A slip: the letter is compared with the answer's next letter.
markGreenGrey_OffByOne(guess, answer) ==
    [i \in 1..Len(guess) |->
        IF guess[i] = charAt(answer, i + 1) THEN GREEN
        ELSE IF ~hasLetter(answer, guess[i]) THEN GREY
        ELSE UNDEFINED]

\* A slip: a letter the answer holds somewhere counts as a match.
markGreenGrey_AnyPlace(guess, answer) ==
    [i \in 1..Len(guess) |->
        IF hasLetter(answer, guess[i]) THEN GREEN ELSE GREY]

\* The first loop of calculatePattern: green matches, grey misses, the rest
\* left unassigned.
markGreenGrey(guess, answer) ==
    [i \in 1..Len(guess) |->
        IF guess[i] = charAt(answer, i) THEN GREEN
        ELSE IF ~hasLetter(answer, guess[i]) THEN GREY
        ELSE UNDEFINED]

\* matchCount after the first loop: the number of green positions of a letter
\* (0 stands for a letter the map does not hold)
matchCount(guess, answer, letter) ==
    Cardinality({i \in 1..Len(guess) : guess[i] = letter /\ guess[i] = charAt(answer, i)})

\* the keys of closeCount after the first loop: the letters of the positions
\* the loop left unassigned
closeLetters(guess, colors) ==
    {guess[i] : i \in {j \in 1..Len(guess) : colors[j] = UNDEFINED}}

\* A slip: the exact matches are not taken off the yellows still to mark.
yellowsNeeded_IgnoreMatches(guess, answer, colors) ==
    [letter \in closeLetters(guess, colors) |->
        Min(countOccurrences(answer, letter), countOccurrences(guess, letter))]

\* The second loop of calculatePattern: closeCount, the yellows still to mark
\* for each letter.
yellowsNeeded(guess, answer, colors) ==
    [letter \in closeLetters(guess, colors) |->
        Min(countOccurrences(answer, letter), countOccurrences(guess, letter))
            - matchCount(guess, answer, letter)]

\* A slip: the unassigned positions are visited from the right.
RECURSIVE markYellowGrey_FromRight(_, _, _, _)
markYellowGrey_FromRight(guess, colors, closeCount, i) ==
    LET j == Len(guess) + 1 - i IN
    IF i > Len(guess) THEN colors
    ELSE IF colors[j] # UNDEFINED
    THEN markYellowGrey_FromRight(guess, colors, closeCount, i + 1)
    ELSE LET letter == guess[j]
             count == IF letter \in DOMAIN closeCount THEN closeCount[letter] ELSE 0
         IN  IF count > 0
             THEN markYellowGrey_FromRight(guess, [colors EXCEPT ![j] = YELLOW],
                                           [closeCount EXCEPT ![letter] = count - 1], i + 1)
             ELSE markYellowGrey_FromRight(guess, [colors EXCEPT ![j] = GREY],
                                           closeCount, i + 1)

\* A slip: no else branch, a position whose letter has no yellow left stays
\* unassigned.
RECURSIVE markYellowGrey_NoElse(_, _, _, _)
markYellowGrey_NoElse(guess, colors, closeCount, i) ==
    IF i > Len(guess) THEN colors
    ELSE IF colors[i] # UNDEFINED
    THEN markYellowGrey_NoElse(guess, colors, closeCount, i + 1)
    ELSE LET letter == guess[i]
             count == IF letter \in DOMAIN closeCount THEN closeCount[letter] ELSE 0
         IN  IF count > 0
             THEN markYellowGrey_NoElse(guess, [colors EXCEPT ![i] = YELLOW],
                                       [closeCount EXCEPT ![letter] = count - 1], i + 1)
             ELSE markYellowGrey_NoElse(guess, colors, closeCount, i + 1)

\* The third loop of calculatePattern, from position i on: every position
\* still unassigned becomes yellow while its letter has yellows left, grey
\* otherwise. (closeCount.get of a missing letter is undefined, and
\* undefined > 0 is false.)
RECURSIVE markYellowGrey(_, _, _, _)
markYellowGrey(guess, colors, closeCount, i) ==
    IF i > Len(guess) THEN colors
    ELSE IF colors[i] # UNDEFINED
    THEN markYellowGrey(guess, colors, closeCount, i + 1)
    ELSE LET letter == guess[i]
             count == IF letter \in DOMAIN closeCount THEN closeCount[letter] ELSE 0
         IN  IF count > 0
             THEN markYellowGrey(guess, [colors EXCEPT ![i] = YELLOW],
                                 [closeCount EXCEPT ![letter] = count - 1], i + 1)
             ELSE markYellowGrey(guess, [colors EXCEPT ![i] = GREY], closeCount, i + 1)

calculatePattern(guess, answer) ==
    LET colors == markGreenGrey(guess, answer)
    IN  markYellowGrey(guess, colors, yellowsNeeded(guess, answer, colors), 1)

\* calculatePattern over the dictionary, evaluated once: the session's calls
\* of calculatePattern read this table (the function is pure, so a lookup and
\* a call agree)
DictionaryWords == Range(AnswerWords) \cup Range(allowedGuesses)
PatternTable ==
    [g \in DictionaryWords |-> [a \in DictionaryWords |-> calculatePattern(g, a)]]

patternOf(guess, answer) ==
    IF guess \in DictionaryWords /\ answer \in DictionaryWords
    THEN PatternTable[guess][answer]
    ELSE calculatePattern(guess, answer)

-----------------------------------------------------------------------------
(* The session: newGame, pruneList, guess *)

\* colors.every(color => color === COLORS.GREEN)
allGreen(colors) == \A i \in 1..Len(colors) : colors[i] = GREEN

\* A slip: the session starts from the guess vocabulary, not the answers.
newGame_WrongList(solution) ==
    [solution |-> solution,
     guesses |-> <<>>,
     remainingAnswers |-> allowedGuesses,
     state |-> PLAYING,
     error |-> NULL]

\* newGame(), for the answer Math.random picks
newGame(solution) ==
    [solution |-> solution,
     guesses |-> <<>>,
     remainingAnswers |-> possibleAnswers,
     state |-> PLAYING,
     error |-> NULL]

\* colors.every((color, index) => color === calculatePattern(word, answer)[index])
sameColors(colors, word, answer) ==
    LET pattern == patternOf(word, answer)
    IN  \A index \in 1..Len(colors) : colors[index] = at(pattern, index)

\* A slip: the filter keeps the answers that do not reproduce the colors.
pruneList_Inverted(remainingAnswers, word, colors) ==
    IF Len(remainingAnswers) = 0 THEN remainingAnswers
    ELSE LET keep(answer) == ~sameColors(colors, word, answer)
         IN  SelectSeq(remainingAnswers, keep)

\* A slip: `some` for `every`, one color in common is enough to keep an answer.
pruneList_Some(remainingAnswers, word, colors) ==
    IF Len(remainingAnswers) = 0 THEN remainingAnswers
    ELSE LET keep(answer) ==
                 \E index \in 1..Len(colors) :
                     colors[index] = at(patternOf(word, answer), index)
         IN  SelectSeq(remainingAnswers, keep)

\* A slip: the whole answer list is filtered, not the answers that remain.
pruneList_FromDictionary(remainingAnswers, word, colors) ==
    IF Len(remainingAnswers) = 0 THEN remainingAnswers
    ELSE LET keep(answer) == sameColors(colors, word, answer)
         IN  SelectSeq(possibleAnswers, keep)

\* A slip: only the first color is compared.
pruneList_FirstColor(remainingAnswers, word, colors) ==
    IF Len(remainingAnswers) = 0 THEN remainingAnswers
    ELSE LET keep(answer) == at(colors, 1) = at(patternOf(word, answer), 1)
         IN  SelectSeq(remainingAnswers, keep)

\* A slip: the guessed word itself is always kept.
pruneList_KeepsGuess(remainingAnswers, word, colors) ==
    IF Len(remainingAnswers) = 0 THEN remainingAnswers
    ELSE LET keep(answer) == answer = word \/ sameColors(colors, word, answer)
         IN  SelectSeq(remainingAnswers, keep)

\* A slip: with no answer left the filter starts again from the answer list.
pruneList_EmptyRestarts(remainingAnswers, word, colors) ==
    IF Len(remainingAnswers) = 0 THEN possibleAnswers
    ELSE LET keep(answer) == sameColors(colors, word, answer)
         IN  SelectSeq(remainingAnswers, keep)

\* pruneList: the answers against which word gives the colors. (The list of
\* a session is never null; pruneListOf takes the null test.)
pruneList(remainingAnswers, word, colors) ==
    IF Len(remainingAnswers) = 0 THEN remainingAnswers
    ELSE LET keep(answer) == sameColors(colors, word, answer)
         IN  SelectSeq(remainingAnswers, keep)

\* pruneList called with null (isNull) or with a list: what it returns, null
\* or a list, and the number of answers the filter's callback was run on
pruneListOf(isNull, remainingAnswers, word, colors) ==
    IF isNull
    THEN [isNull |-> TRUE, list |-> <<>>, scored |-> 0]
    ELSE [isNull |-> FALSE,
          list |-> pruneList(remainingAnswers, word, colors),
          scored |-> IF Len(remainingAnswers) = 0 THEN 0 ELSE Len(remainingAnswers)]

\* the dictionary test of guess, on the lower-cased word
inWordList(word) == includes(possibleAnswers, word) \/ includes(allowedGuesses, word)

\* A slip: the guess count is tested before the colors, so a winning 6th
\* guess loses.
nextState_CountFirst(game_, colors) ==
    IF Len(game_.guesses) >= 5 THEN LOST
    ELSE IF allGreen(colors) THEN WON
    ELSE game_.state

\* A slip: the game is lost one guess late.
nextState_OneMore(game_, colors) ==
    IF allGreen(colors) THEN WON
    ELSE IF Len(game_.guesses) >= 6 THEN LOST
    ELSE game_.state

\* the state guess gives a session in play: won on an all-green pattern, lost
\* when 5 guesses were already made
nextState(game_, colors) ==
    IF allGreen(colors) THEN WON
    ELSE IF Len(game_.guesses) >= 5 THEN LOST
    ELSE game_.state

\* A slip: the word is recorded as typed, not lower-cased.
guess_RecordsTyped(game_, word_) ==
    LET word == toLowerCase(word_) IN
    IF ~inWordList(word)
    THEN [ret |-> [game_ EXCEPT !.error = NOT_IN_WORD_LIST], alert |-> FALSE]
    ELSE IF game_.state # PLAYING
    THEN [ret |-> game_, alert |-> TRUE]
    ELSE LET colors == patternOf(word, game_.solution)
             answersAfterGuess == pruneList(game_.remainingAnswers, word, colors)
         IN  [ret |-> [game_ EXCEPT
                          !.guesses = Append(@, [word |-> word_, colors |-> colors]),
                          !.remainingAnswers = answersAfterGuess,
                          !.error = NULL,
                          !.state = nextState(game_, colors)],
              alert |-> FALSE]

\* A slip: the state of the game is tested before the word.
guess_StateFirst(game_, word_) ==
    LET word == toLowerCase(word_) IN
    IF game_.state # PLAYING
    THEN [ret |-> game_, alert |-> TRUE]
    ELSE IF ~inWordList(word)
    THEN [ret |-> [game_ EXCEPT !.error = NOT_IN_WORD_LIST], alert |-> FALSE]
    ELSE LET colors == patternOf(word, game_.solution)
             answersAfterGuess == pruneList(game_.remainingAnswers, word, colors)
         IN  [ret |-> [game_ EXCEPT
                          !.guesses = Append(@, [word |-> word, colors |-> colors]),
                          !.remainingAnswers = answersAfterGuess,
                          !.error = NULL,
                          !.state = nextState(game_, colors)],
              alert |-> FALSE]

\* A slip: the state of the game is not tested.
guess_NoStateTest(game_, word_) ==
    LET word == toLowerCase(word_) IN
    IF ~inWordList(word)
    THEN [ret |-> [game_ EXCEPT !.error = NOT_IN_WORD_LIST], alert |-> FALSE]
    ELSE LET colors == patternOf(word, game_.solution)
             answersAfterGuess == pruneList(game_.remainingAnswers, word, colors)
         IN  [ret |-> [game_ EXCEPT
                          !.guesses = Append(@, [word |-> word, colors |-> colors]),
                          !.remainingAnswers = answersAfterGuess,
                          !.error = NULL,
                          !.state = nextState(game_, colors)],
              alert |-> FALSE]

\* A slip: a guess on a finished game returns the session with its error
\* cleared.
guess_OverClearsError(game_, word_) ==
    LET word == toLowerCase(word_) IN
    IF ~inWordList(word)
    THEN [ret |-> [game_ EXCEPT !.error = NOT_IN_WORD_LIST], alert |-> FALSE]
    ELSE IF game_.state # PLAYING
    THEN [ret |-> [game_ EXCEPT !.error = NULL], alert |-> TRUE]
    ELSE LET colors == patternOf(word, game_.solution)
             answersAfterGuess == pruneList(game_.remainingAnswers, word, colors)
         IN  [ret |-> [game_ EXCEPT
                          !.guesses = Append(@, [word |-> word, colors |-> colors]),
                          !.remainingAnswers = answersAfterGuess,
                          !.error = NULL,
                          !.state = nextState(game_, colors)],
              alert |-> FALSE]

\* guess(game, word): the session returned (ret) and whether the call raised
\* the "Game is already over" alert. remainingAnswers is an array in every
\* session, so `!game.remainingAnswers` is false.
guess(game_, word_) ==
    LET word == toLowerCase(word_) IN
    IF ~inWordList(word)
    THEN [ret |-> [game_ EXCEPT !.error = NOT_IN_WORD_LIST], alert |-> FALSE]
    ELSE IF game_.state # PLAYING
    THEN [ret |-> game_, alert |-> TRUE]
    ELSE LET colors == patternOf(word, game_.solution)
             answersAfterGuess == pruneList(game_.remainingAnswers, word, colors)
         IN  [ret |-> [game_ EXCEPT
                          !.guesses = Append(@, [word |-> word, colors |-> colors]),
                          !.remainingAnswers = answersAfterGuess,
                          !.error = NULL,
                          !.state = nextState(game_, colors)],
              alert |-> FALSE]

-----------------------------------------------------------------------------
(* analyze *)

\* toFixed(2): the number of decimals analyze keeps
DECIMALS == 2
Scale == 10 ^ DECIMALS

\* colors.join(''): the color names one after the other
RECURSIVE join(_)
join(colors) ==
    IF Len(colors) = 0 THEN "" ELSE Head(colors) \o join(Tail(colors))

\* the key analyze files an answer under: calculatePattern(guess, answer).join('')
bucketKey(guess_, answer) == join(patternOf(guess_, answer))

\* the buckets Map after the first forEach of analyze: for each key, the
\* number of answers filed under it
bucketsOf(guess_, remainingAnswers) ==
    LET keys == [i \in 1..Len(remainingAnswers) |-> bucketKey(guess_, remainingAnswers[i])]
    IN  [key \in {keys[i] : i \in DOMAIN keys} |->
            Cardinality({i \in DOMAIN keys : keys[i] = key})]

\* the second forEach of analyze, over the buckets not yet visited: the sum of
\* count * count, and the largest count
RECURSIVE sumOfSquares(_, _)
sumOfSquares(buckets, keys) ==
    IF keys = {} THEN 0
    ELSE LET key == CHOOSE k \in keys : TRUE
         IN  buckets[key] * buckets[key] + sumOfSquares(buckets, keys \ {key})

RECURSIVE largestOf(_, _)
largestOf(buckets, keys) ==
    IF keys = {} THEN 0
    ELSE LET key == CHOOSE k \in keys : TRUE
             rest == largestOf(buckets, keys \ {key})
         IN  IF buckets[key] > rest THEN buckets[key] ELSE rest

\* A slip: the adjustment for a guess that is a candidate is left out.
expectedRemainingOf_NoAdjust(guess_, remainingAnswers, buckets) ==
    [num |-> sumOfSquares(buckets, DOMAIN buckets),
     den |-> Len(remainingAnswers)]

\* A slip: the adjustment is added.
expectedRemainingOf_Added(guess_, remainingAnswers, buckets) ==
    [num |-> sumOfSquares(buckets, DOMAIN buckets)
                + (IF includes(remainingAnswers, guess_) THEN 1 ELSE 0),
     den |-> Len(remainingAnswers)]

\* expectedRemaining before toFixed, as the fraction num / den: every bucket
\* adds count * count / remainingAnswers.length, and a guess that is one of
\* the remaining answers takes 1 / remainingAnswers.length off
expectedRemainingOf(guess_, remainingAnswers, buckets) ==
    [num |-> sumOfSquares(buckets, DOMAIN buckets)
                - (IF includes(remainingAnswers, guess_) THEN 1 ELSE 0),
     den |-> Len(remainingAnswers)]

\* Number.prototype.toFixed(DECIMALS) of num / den >= 0, as a count of
\* hundredths: the nearest one, the larger of two equally near. The sums of
\* analyze are exact in binary64 when den is a power of two, and for any other
\* den below 24 no quotient lies halfway between two hundredths, so the
\* rounding of the double is the rounding of the fraction.
toFixed(num, den) ==
    IF den = 0 THEN 0 ELSE (2 * Scale * num + den) \div (2 * den)

\* A slip: the adjustment is rounded on its own and taken off the rounded sum.
analyze_AdjustAfterRounding(guess_, remainingAnswers) ==
    LET lowered == toLowerCase(guess_)
        buckets == bucketsOf(lowered, remainingAnswers)
        sum == sumOfSquares(buckets, DOMAIN buckets)
    IN  [expectedRemaining |->
             toFixed(sum, Len(remainingAnswers))
               - (IF includes(remainingAnswers, lowered)
                  THEN toFixed(1, Len(remainingAnswers)) ELSE 0),
         buckets |-> Cardinality(DOMAIN buckets),
         largestBucket |-> largestOf(buckets, DOMAIN buckets)]

\* analyze(guess, remainingAnswers); expectedRemaining is the string toFixed
\* returns, held as its count of hundredths
analyze(guess_, remainingAnswers) ==
    LET lowered == toLowerCase(guess_)
        buckets == bucketsOf(lowered, remainingAnswers)
        expectedRemaining == expectedRemainingOf(lowered, remainingAnswers, buckets)
    IN  [expectedRemaining |-> toFixed(expectedRemaining.num, expectedRemaining.den),
         buckets |-> Cardinality(DOMAIN buckets),
         largestBucket |-> largestOf(buckets, DOMAIN buckets)]

\* A slip: a guess that leaves every answer counts as helpful.
helpfulGuess_AtMost(analysis, remainingAnswers) ==
    analysis.expectedRemaining <= Len(remainingAnswers) * Scale

\* HintsModal: helpfulGuess = analysis.expectedRemaining < remainingAnswers.length
\* (the string is read as a number)
helpfulGuess(analysis, remainingAnswers) ==
    analysis.expectedRemaining < Len(remainingAnswers) * Scale

-----------------------------------------------------------------------------
(* analyzeCheat *)

\* A slip: the guess is scored as typed, in upper case.
analyzeCheat_AsTyped(guess_, colors, remainingAnswers) ==
    LET matches(answer) == sameColors(colors, guess_, answer)
    IN  SelectSeq(remainingAnswers, matches)

\* analyzeCheat(guess, colors, remainingAnswers): the answers whose pattern
\* against the lower-cased guess has every one of the colors
analyzeCheat(guess_, colors, remainingAnswers) ==
    LET lowered == toLowerCase(guess_)
        matches(answer) == sameColors(colors, lowered, answer)
    IN  SelectSeq(remainingAnswers, matches)

-----------------------------------------------------------------------------
(* topGuesses *)

\* slice(0, 20): the number of guesses topGuesses returns
TOP_COUNT == 20

\* an entry of the Maps of topGuesses: a word and its expected remaining, in
\* hundredths
entry(word, expectedRemaining) ==
    [word |-> word, expectedRemaining |-> expectedRemaining]

\* the table topGuesses holds for the opening guess ("60.7" is 6070 hundredths)
preComputed ==
    <<
       entry(<<"r", "a", "i", "s", "e">>, 6070),
       entry(<<"a", "r", "i", "s", "e">>, 6350),
       entry(<<"i", "r", "a", "t", "e">>, 6350),
       entry(<<"a", "r", "o", "s", "e">>, 6580),
       entry(<<"a", "l", "t", "e", "r">>, 6980),
       entry(<<"l", "a", "t", "e", "r">>, 7000),
       entry(<<"s", "a", "n", "e", "r">>, 7000),
       entry(<<"s", "n", "a", "r", "e">>, 7100),
       entry(<<"s", "t", "a", "r", "e">>, 7100),
       entry(<<"s", "l", "a", "t", "e">>, 7130),
       entry(<<"a", "l", "e", "r", "t">>, 7150),
       entry(<<"c", "r", "a", "t", "e">>, 7280),
       entry(<<"t", "r", "a", "c", "e">>, 7390),
       entry(<<"s", "t", "a", "l", "e">>, 7530),
       entry(<<"a", "i", "s", "l", "e">>, 7610),
       entry(<<"l", "e", "a", "r", "n">>, 7670),
       entry(<<"l", "e", "a", "n", "t">>, 7710),
       entry(<<"a", "l", "o", "n", "e">>, 7720),
       entry(<<"l", "e", "a", "s", "t">>, 7800),
       entry(<<"c", "r", "a", "n", "e">>, 7870)
    >>

\* A slip: the table is returned for every list that is not empty.
usesPreComputed_NonEmpty(answers, remainingAnswers) == Len(remainingAnswers) > 0

\* the test that picks the table: remainingAnswers.length === possibleAnswers.length
\* (no caller passes null)
usesPreComputed(answers, remainingAnswers) == Len(remainingAnswers) = Len(answers)

\* the Map expectedRemaining: one entry per answer, in the order the answers
\* are first met, each with analyze(answer, remainingAnswers).expectedRemaining
entriesOf(remainingAnswers) ==
    LET first == {i \in 1..Len(remainingAnswers) :
                     \A j \in 1..(i - 1) : remainingAnswers[j] # remainingAnswers[i]}
        keep(e) == e.first
        all == [i \in 1..Len(remainingAnswers) |->
                   [first |-> i \in first,
                    word |-> remainingAnswers[i],
                    expectedRemaining |->
                        analyze(remainingAnswers[i], remainingAnswers).expectedRemaining]]
        kept == SelectSeq(all, keep)
    IN  [i \in 1..Len(kept) |-> entry(kept[i].word, kept[i].expectedRemaining)]

\* A slip: an entry goes before the entries of the same value.
RECURSIVE insert_BeforeEqual(_, _)
insert_BeforeEqual(sorted, e) ==
    IF Len(sorted) = 0 THEN <<e>>
    ELSE IF Head(sorted).expectedRemaining < e.expectedRemaining
    THEN <<Head(sorted)>> \o insert_BeforeEqual(Tail(sorted), e)
    ELSE <<e>> \o sorted

\* Array.prototype.sort with (a, b) => a[1] - b[1], one entry at a time: the
\* sort is stable, so an entry goes after every entry that is not greater
RECURSIVE insert(_, _)
insert(sorted, e) ==
    IF Len(sorted) = 0 THEN <<e>>
    ELSE IF Head(sorted).expectedRemaining <= e.expectedRemaining
    THEN <<Head(sorted)>> \o insert(Tail(sorted), e)
    ELSE <<e>> \o sorted

RECURSIVE sort(_, _)
sort(entries, n) ==
    IF n = 0 THEN <<>> ELSE insert(sort(entries, n - 1), entries[n])

\* A slip: the end index is taken as the last index kept.
slice_Inclusive(list, begin, end) ==
    SubSeq(list, begin + 1, Min(end + 1, Len(list)))

\* Array.prototype.slice(begin, end) for 0 <= begin <= end
slice(list, begin, end) ==
    SubSeq(list, begin + 1, Min(end, Len(list)))

\* topGuesses(remainingAnswers) over the answer list answers
topGuessesOver(answers, remainingAnswers) ==
    IF usesPreComputed(answers, remainingAnswers) THEN preComputed
    ELSE LET expectedRemaining == entriesOf(remainingAnswers)
             sorted == sort(expectedRemaining, Len(expectedRemaining))
         IN  slice(sorted, 0, TOP_COUNT)

topGuesses(remainingAnswers) == topGuessesOver(possibleAnswers, remainingAnswers)

-----------------------------------------------------------------------------
(* The session as its caller drives it: a new game, then guesses *)

\* the words a caller passes to guess: the dictionary's words, a dictionary
\* word in upper case, a word of 5 letters that is in no list, a short word
NonWords == { <<"z", "z", "z", "z", "z">>, <<"c", "r", "a">> }
GuessInputs ==
    Range(possibleAnswers) \cup Range(allowedGuesses)
        \cup {toUpperCase(possibleAnswers[1])} \cup NonWords

NoCall == [fn |-> "none"]

\* the component as it is mounted: nothing typed, no color set, no timer
NoColors == [i \in 1..WORD_LEN |-> EMPTY]
NoSession == [state |-> "none"]
Mounted ==
    /\ input = <<>>
    /\ cheatColors = NoColors
    /\ timers = <<>>
    /\ rejected = NoSession
    /\ hintsModalIsOpen = FALSE
    /\ openTimers = 0

Init ==
    /\ Mounted
    /\ gameMode = HINTS
    /\ \E solution \in Range(possibleAnswers) : game = newGame(solution)
    /\ prevGame = game
    /\ lastOp = "init"
    /\ lastWord = <<>>
    /\ alerted = FALSE
    /\ call = NoCall

\* startNewGame: setGame(newGame())
NewGame ==
    /\ \E solution \in Range(possibleAnswers) : game' = newGame(solution)
    /\ prevGame' = game'
    /\ lastOp' = "newGame"
    /\ lastWord' = <<>>
    /\ alerted' = FALSE
    /\ UNCHANGED <<call, appVars>>

\* the caller replaces its session by guess(game, word)
Guess ==
    /\ \E word \in GuessInputs :
          LET result == guess(game, word)
          IN  /\ game' = result.ret
              /\ alerted' = result.alert
              /\ lastWord' = word
    /\ prevGame' = game
    /\ lastOp' = "guess"
    /\ UNCHANGED <<call, appVars>>

Next == NewGame \/ Guess

Spec == Init /\ [][Next]_vars

-----------------------------------------------------------------------------
(* Cheat mode: the user types a word, sets the colors another game showed
   for it, and presses Enter *)

SET_ALL_COLORS == "In cheat mode, you must set all colors"
NO_MATCHES == "There are no words that match the guess and colors"

\* Grid.onColorsSet: the color a click gives a tile
nextColor(color) ==
    IF color = EMPTY THEN GREY
    ELSE IF color = GREY THEN YELLOW
    ELSE IF color = YELLOW THEN GREEN
    ELSE GREY

\* A slip: a word and colors that match no answer are taken as a guess.
handleWordEnteredCheat_NoMatchTest(game_, word_, colors_) ==
    LET matches == analyzeCheat(word_, colors_, game_.remainingAnswers) IN
    IF includes(colors_, EMPTY)
    THEN [gameUpdate |-> [game_ EXCEPT !.error = SET_ALL_COLORS],
          accepted |-> FALSE, called |-> FALSE, matches |-> <<>>]
    ELSE [gameUpdate |-> [game_ EXCEPT
                             !.state = IF allGreen(colors_) THEN WON
                                       ELSE IF Len(game_.guesses) >= 5 THEN LOST
                                       ELSE @,
                             !.remainingAnswers = matches,
                             !.guesses = Append(@, [word |-> word_, colors |-> colors_])],
          accepted |-> TRUE, called |-> TRUE, matches |-> matches]

\* A slip: no test for colors left EMPTY, and a tile without a color matches
\* any color.
handleWordEnteredCheat_EmptyMatchesAny(game_, word_, colors_) ==
    LET fits(answer) ==
            \A index \in 1..Len(colors_) :
                \/ colors_[index] = EMPTY
                \/ colors_[index] = at(patternOf(toLowerCase(word_), answer), index)
        matches == SelectSeq(game_.remainingAnswers, fits)
    IN
    IF Len(matches) = 0
    THEN [gameUpdate |-> [game_ EXCEPT !.error = NO_MATCHES],
          accepted |-> FALSE, called |-> TRUE, matches |-> matches]
    ELSE [gameUpdate |-> [game_ EXCEPT
                             !.state = IF allGreen(colors_) THEN WON
                                       ELSE IF Len(game_.guesses) >= 5 THEN LOST
                                       ELSE @,
                             !.remainingAnswers = matches,
                             !.guesses = Append(@, [word |-> word_, colors |-> colors_])],
          accepted |-> TRUE, called |-> TRUE, matches |-> matches]

\* handleWordEntered, the CHEAT branch: the gameUpdate it builds, whether it
\* goes on to updateGame (accepted), and the analyzeCheat call if it makes one
handleWordEnteredCheat(game_, word_, colors_) ==
    LET matches == analyzeCheat(word_, colors_, game_.remainingAnswers) IN
    IF includes(colors_, EMPTY)
    THEN [gameUpdate |-> [game_ EXCEPT !.error = SET_ALL_COLORS],
          accepted |-> FALSE, called |-> FALSE, matches |-> <<>>]
    ELSE IF Len(matches) = 0
    THEN [gameUpdate |-> [game_ EXCEPT !.error = NO_MATCHES],
          accepted |-> FALSE, called |-> TRUE, matches |-> matches]
    ELSE [gameUpdate |-> [game_ EXCEPT
                             !.state = IF allGreen(colors_) THEN WON
                                       ELSE IF Len(game_.guesses) >= 5 THEN LOST
                                       ELSE @,
                             !.remainingAnswers = matches,
                             !.guesses = Append(@, [word |-> word_, colors |-> colors_])],
          accepted |-> TRUE, called |-> TRUE, matches |-> matches]

\* updateGame: whether it calls clearGuess (the game is over, or gameUpdate
\* carries no error)
clearsGuess(gameUpdate) == gameUpdate.state # PLAYING \/ gameUpdate.error = NULL

\* the actions a user gets in before a timer runs: a timer set for 2000 ms
\* runs after at most this many further keys, clicks and button presses
TimerSlack == 3
UserActs ==
    /\ \A k \in 1..Len(timers) : timers[k].left > 0
    /\ openTimers = 0

\* the pending timers after one more action of the user
aged(pending) == [k \in 1..Len(pending) |-> [pending[k] EXCEPT !.left = @ - 1]]

\* setTimeout(() => setGame({...gameUpdate, error: null}), 2000)
setTimeout(pending, gameUpdate) ==
    Append(pending, [gameUpdate |-> gameUpdate, left |-> TimerSlack])

\* the words the user types, as the keyboard gives them: in upper case
CheatWords == {toUpperCase(possibleAnswers[1])}

IsPrefix(p, w) == Len(p) <= Len(w) /\ SubSeq(w, 1, Len(p)) = p

\* the colors the user is working towards: what a game whose answer is the
\* first or the second of the list would show for a typed word, and five greys
CheatTargets ==
    {patternOf(toLowerCase(w), possibleAnswers[k]) : w \in CheatWords, k \in 1..2}
        \cup {[i \in 1..WORD_LEN |-> GREY]}

Rank(color) ==
    IF color = EMPTY THEN 0 ELSE IF color = GREY THEN 1 ELSE IF color = YELLOW THEN 2 ELSE 3

\* the user sets the tiles from the left, each one up to the color wanted
OnTheWay(colors, i) ==
    \E target \in CheatTargets :
        /\ \A j \in 1..(i - 1) : colors[j] = target[j]
        /\ Rank(colors[i]) <= Rank(target[i])
        /\ \A j \in (i + 1)..WORD_LEN : colors[j] = EMPTY

\* a step that leaves the session alone: nothing to remember of it
SessionKept ==
    /\ UNCHANGED game
    /\ prevGame' = game
    /\ lastOp' = "input"
    /\ lastWord' = <<>>
    /\ alerted' = FALSE
    /\ call' = NoCall
    /\ rejected' = NoSession
    /\ UNCHANGED uiVars

InitCheat ==
    /\ Mounted
    /\ gameMode = CHEAT
    /\ \E solution \in Range(possibleAnswers) : game = newGame(solution)
    /\ prevGame = game
    /\ lastOp = "init"
    /\ lastWord = <<>>
    /\ alerted = FALSE
    /\ call = NoCall

\* startNewGame: setGame(newGame()); clearGuess()
StartNewGame ==
    /\ UserActs
    /\ \E solution \in Range(possibleAnswers) : game' = newGame(solution)
    /\ prevGame' = game'
    /\ lastOp' = "newGame"
    /\ lastWord' = <<>>
    /\ alerted' = FALSE
    /\ call' = NoCall
    /\ input' = <<>>
    /\ cheatColors' = NoColors
    /\ timers' = aged(timers)
    /\ rejected' = NoSession
    /\ UNCHANGED uiVars

\* MobileKeyboard, a letter key: shown while the game is on, at most
\* WORD_LEN letters
KeyPress ==
    /\ UserActs
    /\ game.state = PLAYING
    /\ Len(input) < WORD_LEN
    /\ \E w \in CheatWords :
          /\ IsPrefix(input, w)
          /\ input' = Append(input, w[Len(input) + 1])
    /\ SessionKept
    /\ timers' = aged(timers)
    /\ UNCHANGED cheatColors

\* MobileKeyboard, Backspace (pressed here before any color is set)
Backspace ==
    /\ UserActs
    /\ game.state = PLAYING
    /\ Len(input) > 0
    /\ cheatColors = NoColors
    /\ input' = SubSeq(input, 1, Len(input) - 1)
    /\ SessionKept
    /\ timers' = aged(timers)
    /\ UNCHANGED cheatColors

\* Grid.onColorsSet(i - 1): a click on a tile that holds a letter
ColorClick ==
    /\ UserActs
    /\ gameMode = CHEAT
    /\ \E i \in 1..WORD_LEN :
          /\ Len(input) >= i
          /\ cheatColors' = [cheatColors EXCEPT ![i] = nextColor(@)]
          /\ OnTheWay(cheatColors', i)
    /\ SessionKept
    /\ timers' = aged(timers)
    /\ UNCHANGED input

\* MobileKeyboard, Enter with WORD_LEN letters typed: handleWordEntered in
\* cheat mode, with updateGame when the guess is taken. Either way a timer
\* is set that holds gameUpdate.
CheatEnter ==
    /\ UserActs
    /\ gameMode = CHEAT
    /\ game.state = PLAYING
    /\ Len(input) = WORD_LEN
    /\ LET entered == handleWordEnteredCheat(game, input, cheatColors)
           cleared == entered.accepted /\ clearsGuess(entered.gameUpdate)
       IN  /\ game' = entered.gameUpdate
           /\ timers' = setTimeout(aged(timers), entered.gameUpdate)
           /\ input' = IF cleared THEN <<>> ELSE input
           /\ cheatColors' = IF cleared THEN NoColors ELSE cheatColors
           /\ call' = IF entered.called
                      THEN [fn |-> "analyzeCheat", guess |-> input, colors |-> cheatColors,
                            remainingAnswers |-> game.remainingAnswers,
                            ret |-> entered.matches]
                      ELSE NoCall
           /\ rejected' = IF entered.accepted THEN NoSession ELSE game
    /\ prevGame' = game
    /\ lastOp' = "cheatEnter"
    /\ lastWord' = input
    /\ alerted' = FALSE
    /\ UNCHANGED uiVars

\* HintsModal as Wordle renders it: closed, it calls nothing; open, it calls
\* guess(game, word) with the session and the typed word of that render
HintsModal(modalIsOpen, game_, word_) ==
    IF modalIsOpen
    THEN [fn |-> "guess", state |-> game_.state, word |-> word_,
          alert |-> guess(game_, word_).alert]
    ELSE NoCall

\* the keyboard is rendered while the game is on: a session that is on again
\* mounts a new keyboard, with nothing typed
remounted(before, after, typed) ==
    IF before.state # PLAYING /\ after.state = PLAYING THEN <<>> ELSE typed

\* a callback that stores the gameUpdate it holds as it is, error included
TimerFires_KeepsError ==
    /\ Len(timers) > 0
    /\ game' = Head(timers).gameUpdate
    /\ timers' = Tail(timers)
    /\ prevGame' = game
    /\ lastOp' = "timer"
    /\ lastWord' = <<>>
    /\ call' = HintsModal(hintsModalIsOpen, game', input)
    /\ alerted' = (call'.fn = "guess" /\ call'.alert)
    /\ input' = remounted(game, game', input)
    /\ UNCHANGED <<cheatColors, rejected, uiVars>>

\* the oldest timer runs: setGame({...gameUpdate, error: null}), and the
\* component renders with the session it stored
TimerFires ==
    /\ Len(timers) > 0
    /\ game' = [Head(timers).gameUpdate EXCEPT !.error = NULL]
    /\ timers' = Tail(timers)
    /\ prevGame' = game
    /\ lastOp' = "timer"
    /\ lastWord' = <<>>
    /\ call' = HintsModal(hintsModalIsOpen, game', input)
    /\ alerted' = (call'.fn = "guess" /\ call'.alert)
    /\ input' = remounted(game, game', input)
    /\ UNCHANGED <<cheatColors, rejected, uiVars>>

NextCheat ==
    \/ StartNewGame
    \/ KeyPress
    \/ Backspace
    \/ ColorClick
    \/ CheatEnter
    \/ TimerFires

SpecCheat == InitCheat /\ [][NextCheat]_vars

\* a callback passed to setTimeout runs once its delay is over: the event
\* loop leaves no timer pending for ever
SpecCheatFair == SpecCheat /\ WF_vars(TimerFires)

-----------------------------------------------------------------------------
(* The play modes: the user changes the mode, and plays without hints *)

\* changeGameMode(mode): a new game if the change is to or from cheat mode
ChangeGameMode(mode) ==
    /\ UserActs
    /\ mode # gameMode
    /\ gameMode' = mode
    /\ IF (mode = CHEAT) # (gameMode = CHEAT)
       THEN /\ \E solution \in Range(possibleAnswers) : game' = newGame(solution)
            /\ prevGame' = game'
            /\ lastOp' = "newGame"
            /\ input' = <<>>
            /\ cheatColors' = NoColors
       ELSE /\ prevGame' = game
            /\ lastOp' = "input"
            /\ UNCHANGED <<game, input, cheatColors>>
    /\ lastWord' = <<>>
    /\ alerted' = FALSE
    /\ call' = NoCall
    /\ timers' = aged(timers)
    /\ rejected' = NoSession
    /\ UNCHANGED <<hintsModalIsOpen, openTimers>>

\* MobileKeyboard, Enter with WORD_LEN letters typed: handleWordEntered in
\* no-hints mode, with updateGame and the timer it sets
NoHintsEnter ==
    /\ UserActs
    /\ gameMode = NO_HINTS
    /\ game.state = PLAYING
    /\ Len(input) = WORD_LEN
    /\ \E result \in {guess(game, input)} :
          LET gameUpdate == result.ret
              cleared == clearsGuess(gameUpdate) \/ Len(gameUpdate.guesses) > Len(game.guesses)
          IN  /\ game' = gameUpdate
              /\ alerted' = result.alert
              /\ timers' = setTimeout(aged(timers), gameUpdate)
              /\ input' = IF cleared THEN <<>> ELSE input
              /\ cheatColors' = IF cleared THEN NoColors ELSE cheatColors
    /\ prevGame' = game
    /\ lastOp' = "guess"
    /\ lastWord' = input
    /\ call' = NoCall
    /\ rejected' = NoSession
    /\ hintsModalIsOpen' = FALSE
    /\ UNCHANGED <<gameMode, openTimers>>

\* the modes the user goes between
ModesPlayed == {CHEAT, NO_HINTS}

NextModes ==
    \/ StartNewGame
    \/ KeyPress
    \/ Backspace
    \/ ColorClick
    \/ CheatEnter
    \/ NoHintsEnter
    \/ \E mode \in ModesPlayed : ChangeGameMode(mode)
    \/ TimerFires

SpecModes == InitCheat /\ [][NextModes]_vars

-----------------------------------------------------------------------------
(* Hints mode: Enter opens the hints dialog, which submits the guess *)

\* the actions a fast typist gets in before a timer runs: New Game, the
\* letters of a word and Enter fit in the 2000 ms
TypingSlack == 7

\* MobileKeyboard, Enter with WORD_LEN letters typed: handleWordEntered in
\* hints mode sets the timer that opens the dialog
HintsEnter ==
    /\ UserActs
    /\ gameMode = HINTS
    /\ ~hintsModalIsOpen
    /\ game.state = PLAYING
    /\ Len(input) = WORD_LEN
    /\ openTimers' = openTimers + 1
    /\ timers' = aged(timers)
    /\ prevGame' = game
    /\ lastOp' = "input"
    /\ lastWord' = input
    /\ alerted' = FALSE
    /\ call' = NoCall
    /\ UNCHANGED <<game, input, cheatColors, rejected, gameMode, hintsModalIsOpen>>

\* the 200 ms are over: setHintsModalIsOpen(true), and the dialog renders
OpenFires ==
    /\ openTimers > 0
    /\ openTimers' = openTimers - 1
    /\ hintsModalIsOpen' = TRUE
    /\ call' = HintsModal(TRUE, game, input)
    /\ alerted' = call'.alert
    /\ prevGame' = game
    /\ lastOp' = "open"
    /\ lastWord' = <<>>
    /\ UNCHANGED <<game, input, cheatColors, timers, rejected, gameMode>>

\* HintsModal, the Submit button, shown for a word of the dictionary:
\* onSubmit(gameUpdate) is updateGame with the session the render computed
Submit ==
    /\ UserActs
    /\ hintsModalIsOpen
    /\ inWordList(toLowerCase(input))
    /\ \E gameUpdate \in {guess(game, input).ret} :
          /\ game' = gameUpdate
          /\ timers' = Append(aged(timers), [gameUpdate |-> gameUpdate, left |-> TypingSlack])
          /\ input' = IF clearsGuess(gameUpdate) THEN <<>> ELSE input
          /\ cheatColors' = IF clearsGuess(gameUpdate) THEN NoColors ELSE cheatColors
    /\ hintsModalIsOpen' = FALSE
    /\ prevGame' = game
    /\ lastOp' = "guess"
    /\ lastWord' = input
    /\ alerted' = FALSE
    /\ call' = NoCall
    /\ UNCHANGED <<rejected, gameMode, openTimers>>

\* HintsModal, "Change my guess" or x: onModalClose
CloseModal ==
    /\ UserActs
    /\ hintsModalIsOpen
    /\ hintsModalIsOpen' = FALSE
    /\ timers' = aged(timers)
    /\ prevGame' = game
    /\ lastOp' = "input"
    /\ lastWord' = <<>>
    /\ alerted' = FALSE
    /\ call' = NoCall
    /\ UNCHANGED <<game, input, cheatColors, rejected, gameMode, openTimers>>

\* the page behind the open dialog takes no click and no key
NextHints ==
    \/ (~hintsModalIsOpen /\ StartNewGame)
    \/ (~hintsModalIsOpen /\ KeyPress)
    \/ (~hintsModalIsOpen /\ Backspace)
    \/ HintsEnter
    \/ OpenFires
    \/ Submit
    \/ CloseModal
    \/ TimerFires

SpecHints == Init /\ [][NextHints]_vars

-----------------------------------------------------------------------------
(* Normal play and cheat mode side by side: the session of normal play is    *)
(* also handed to the cheat-mode handler, with the word as the keyboard      *)
(* gives it and the colors the game shows for it                             *)

\* the dictionary's words as the keyboard gives them, in upper case
DictionaryInputs ==
    {toUpperCase(w) : w \in Range(possibleAnswers) \cup Range(allowedGuesses)}

\* guess(game, word) on a session in play, and handleWordEntered in cheat
\* mode on the same session with the colors calculatePattern gives the word
\* against the session's solution; call keeps of the gameUpdate of cheat mode
\* its status, its candidates, the length of its history and the last record
GuessAndCheat ==
    /\ game.state = PLAYING
    /\ \E word \in DictionaryInputs :
          /\ inWordList(toLowerCase(word))
          /\ \E colors \in {patternOf(toLowerCase(word), game.solution)},
                result \in {guess(game, word)} :
                \E entered \in {handleWordEnteredCheat(game, word, colors)} :
                    /\ game' = result.ret
                    /\ alerted' = result.alert
                    /\ lastWord' = word
                    /\ call' = [fn |-> "handleWordEntered",
                                accepted |-> entered.accepted,
                                state |-> entered.gameUpdate.state,
                                remainingAnswers |-> entered.gameUpdate.remainingAnswers,
                                count |-> Len(entered.gameUpdate.guesses),
                                appended |-> at(entered.gameUpdate.guesses,
                                                Len(entered.gameUpdate.guesses))]
    /\ prevGame' = game
    /\ lastOp' = "guess"
    /\ UNCHANGED appVars

NextRefine == NewGame \/ GuessAndCheat

SpecRefine == Init /\ [][NextRefine]_vars

-----------------------------------------------------------------------------
(* calculatePattern and pruneList on their own: every call over bounded inputs *)

Alphabet == <<"a", "b", "c", "d", "e">>
Letters == {Alphabet[i] : i \in 1..AlphabetSize}

\* the words calculatePattern is called with: every word of WORD_LEN letters
\* over Letters, and the dictionary's words
PatternWords ==
    [1..WORD_LEN -> Letters] \cup Range(AnswerWords) \cup Range(allowedGuesses)

\* a word that takes the letters in the order of Alphabet: a letter comes
\* only after every letter before it has been used
FirstUseInOrder(w) ==
    \A i \in 1..Len(w), k \in 1..Len(Alphabet) :
        (w[i] = Alphabet[k]) => \A l \in 1..(k - 1) : \E j \in 1..(i - 1) : w[j] = Alphabet[l]

\* the guesses calculatePattern is called with: calculatePattern looks at
\* letters only to compare them, so a guess over Letters is taken up to a
\* renaming of the letters (the answer ranges over every word of
\* PatternWords), and the dictionary's words as they are
PatternGuesses ==
    {w \in [1..WORD_LEN -> Letters] : FirstUseInOrder(w)}
        \cup Range(AnswerWords) \cup Range(allowedGuesses)

Idle ==
    /\ Mounted
    /\ gameMode = HINTS
    /\ game = newGame(possibleAnswers[1])
    /\ prevGame = game
    /\ lastOp = "init"
    /\ lastWord = <<>>
    /\ alerted = FALSE

\* a guess is at hand
InitPattern ==
    /\ Idle
    /\ \E g \in PatternGuesses :
          call = [fn |-> "calculatePattern", guess |-> g, answer |-> <<>>,
                  done |-> FALSE, ret |-> <<>>]

\* the guess is scored against an answer
CallCalculatePattern ==
    /\ call.fn = "calculatePattern"
    /\ ~call.done
    /\ \E t \in PatternWords :
          call' = [call EXCEPT !.answer = t,
                               !.done = TRUE,
                               !.ret = calculatePattern(call.guess, t)]
    /\ UNCHANGED <<game, prevGame, lastOp, lastWord, alerted, appVars>>

SpecPattern == InitPattern /\ [][CallCalculatePattern]_vars

\* guesses that are not WORD_LEN letters long: the dictionary's words cut
\* short, and with a letter more
OtherLengthWords ==
    {SubSeq(w, 1, n) : w \in DictionaryWords, n \in 1..(WORD_LEN - 1)}
        \cup {Append(w, "s") : w \in DictionaryWords}

InitLengths ==
    /\ Idle
    /\ \E g \in OtherLengthWords :
          call = [fn |-> "calculatePattern", guess |-> g, answer |-> <<>>,
                  done |-> FALSE, ret |-> <<>>]

\* calculatePattern called with a guess and an answer of different lengths
SpecLengths == InitLengths /\ [][CallCalculatePattern]_vars

\* calculatePattern on its own and the sessions of normal play, in one
\* specification: a call of calculatePattern at hand is carried out; with
\* no such call, a game is started or a word of the dictionary is guessed
InitWin == InitPattern \/ Init

NextWin ==
    \/ CallCalculatePattern
    \/ (call.fn # "calculatePattern" /\ NewGame)
    \/ (call.fn # "calculatePattern" /\ GuessAndCheat)

SpecWin == InitWin /\ [][NextWin]_vars

\* the elements of s at the indexes of S, in the order of s
RECURSIVE SubList(_, _, _)
SubList(s, S, i) ==
    IF i > Len(s) THEN <<>>
    ELSE (IF i \in S THEN <<s[i]>> ELSE <<>>) \o SubList(s, S, i + 1)

\* the candidate lists a session can hold: sublists of the answer list
CandidateLists == {SubList(possibleAnswers, S, 1) : S \in SUBSET (1..Len(possibleAnswers))}

\* the patterns pruneList is called with
Patterns == [1..WORD_LEN -> {GREEN, YELLOW, GREY, EMPTY}]

\* a call is at hand, with a list or with null (isNull; remainingAnswers is
\* then not read)
InitPrune ==
    /\ Idle
    /\ \E C \in CandidateLists, g \in GuessInputs, p \in Patterns, isNull \in BOOLEAN :
          /\ isNull => C = <<>>
          /\ call = [fn |-> "pruneList", isNull |-> isNull, remainingAnswers |-> C,
                     word |-> g, colors |-> p,
                     done |-> FALSE, ret |-> <<>>, retNull |-> FALSE, scored |-> 0]

CallPruneList ==
    /\ call.fn = "pruneList"
    /\ ~call.done
    /\ LET returned == pruneListOf(call.isNull, call.remainingAnswers, call.word, call.colors)
       IN  call' = [call EXCEPT !.done = TRUE,
                               !.ret = returned.list,
                               !.retNull = returned.isNull,
                               !.scored = returned.scored]
    /\ UNCHANGED <<game, prevGame, lastOp, lastWord, alerted, appVars>>

SpecPrune == InitPrune /\ [][CallPruneList]_vars

\* the words analyze is called with: what HintsModal passes on, a typed word
\* in either case, in the dictionary or not
AnalyzeInputs ==
    GuessInputs \cup {toUpperCase(w) : w \in Range(possibleAnswers) \cup Range(allowedGuesses)}

\* the lists analyze is called with: the remaining answers of a session, never empty
AnswerLists == CandidateLists \ {<<>>}

InitAnalyze ==
    /\ Idle
    /\ \E C \in AnswerLists, g \in AnalyzeInputs :
          call = [fn |-> "analyze", guess |-> g, remainingAnswers |-> C,
                  done |-> FALSE, ret |-> <<>>, unrounded |-> <<>>]

\* analyze(guess, remainingAnswers); unrounded keeps expectedRemaining as it
\* is before toFixed
CallAnalyze ==
    /\ call.fn = "analyze"
    /\ ~call.done
    /\ LET lowered == toLowerCase(call.guess)
       IN  call' = [call EXCEPT
                       !.done = TRUE,
                       !.ret = analyze(call.guess, call.remainingAnswers),
                       !.unrounded =
                           expectedRemainingOf(lowered, call.remainingAnswers,
                                               bucketsOf(lowered, call.remainingAnswers))]
    /\ UNCHANGED <<game, prevGame, lastOp, lastWord, alerted, appVars>>

SpecAnalyze == InitAnalyze /\ [][CallAnalyze]_vars

\* topGuesses over an answer list of more words than it returns
TopDictLen == 22

\* the k-th word of that list
TopWord(k) ==
    [i \in 1..WORD_LEN |-> Alphabet[(((7 * k) \div (Len(Alphabet) ^ (i - 1))) % Len(Alphabet)) + 1]]

TopAnswers == [k \in 1..TopDictLen |-> TopWord(k)]

\* the lists topGuesses is called with: the answers left by pruning, here
\* the runs of the answer list
TopLists == {SubSeq(TopAnswers, i, j) : i, j \in 1..TopDictLen} \ {<<>>}

InitTop ==
    /\ Idle
    /\ \E C \in TopLists :
          call = [fn |-> "topGuesses", possibleAnswers |-> TopAnswers,
                  remainingAnswers |-> C, done |-> FALSE, ret |-> <<>>]

CallTopGuesses ==
    /\ call.fn = "topGuesses"
    /\ ~call.done
    /\ call' = [call EXCEPT
                   !.done = TRUE,
                   !.ret = topGuessesOver(call.possibleAnswers, call.remainingAnswers)]
    /\ UNCHANGED <<game, prevGame, lastOp, lastWord, alerted, appVars>>

SpecTop == InitTop /\ [][CallTopGuesses]_vars

\* the example of the help dialog: "if the remaining answers are CRANE,
\* CRANK, CRAVE, CRAMP, and CRAZY, then guessing CRAVE is optimal because it
\* is either correct or will result in 1 possible answer left"
crave == <<"c", "r", "a", "v", "e">>
HelpAnswers ==
    << <<"c", "r", "a", "n", "e">>, <<"c", "r", "a", "n", "k">>, crave,
       <<"c", "r", "a", "m", "p">>, <<"c", "r", "a", "z", "y">> >>

\* the answer list these five are left of: it has more words than they are
HelpDictionary == HelpAnswers \o <<AnswerWords[2], AnswerWords[4]>>

\* the lists guesses leave of the five
HelpLists ==
    {SubList(HelpAnswers, S, 1) : S \in SUBSET (1..Len(HelpAnswers))} \ {<<>>}

\* a guess among the five is at hand, to be scored against a secret and
\* pruned with, to be analyzed, or the list is to be ranked
InitHelp ==
    /\ Idle
    /\ \/ \E C \in HelpLists, g \in Range(HelpAnswers), s \in Range(HelpAnswers) :
             /\ includes(C, s)
             /\ call = [fn |-> "pruneList", remainingAnswers |-> C, word |-> g,
                        secret |-> s, done |-> FALSE, colors |-> <<>>, ret |-> <<>>]
       \/ \E C \in HelpLists, g \in Range(HelpAnswers) :
             call = [fn |-> "analyze", guess |-> g, remainingAnswers |-> C,
                     done |-> FALSE, ret |-> <<>>]
       \/ \E C \in HelpLists :
             call = [fn |-> "topGuesses", possibleAnswers |-> HelpDictionary,
                     remainingAnswers |-> C, done |-> FALSE, ret |-> <<>>]

\* pruneList(remainingAnswers, word, calculatePattern(word, secret))
CallPruneHelp ==
    /\ call.fn = "pruneList"
    /\ ~call.done
    /\ LET colors == calculatePattern(call.word, call.secret)
       IN  call' = [call EXCEPT !.done = TRUE,
                               !.colors = colors,
                               !.ret = pruneList(call.remainingAnswers, call.word, colors)]
    /\ UNCHANGED <<game, prevGame, lastOp, lastWord, alerted, appVars>>

\* analyze(guess, remainingAnswers)
CallAnalyzeHelp ==
    /\ call.fn = "analyze"
    /\ ~call.done
    /\ call' = [call EXCEPT !.done = TRUE,
                            !.ret = analyze(call.guess, call.remainingAnswers)]
    /\ UNCHANGED <<game, prevGame, lastOp, lastWord, alerted, appVars>>

NextHelp ==
    \/ CallPruneHelp
    \/ CallAnalyzeHelp
    \/ CallTopGuesses

SpecHelp == InitHelp /\ [][NextHelp]_vars

-----------------------------------------------------------------------------
(* Properties of calculatePattern (checked under SpecPattern) *)

\* the positions of word that hold the letter c
PositionsOf(word, c) == {i \in 1..Len(word) : word[i] = c}

\* the positions of the guess holding c that the pattern marks with a color of marks
Marked(guess_, pattern, c, marks) == {i \in PositionsOf(guess_, c) : pattern[i] \in marks}

\* a finished call of calculatePattern(g, t) on words of WORD_LEN letters
PatternCallDone ==
    /\ call.fn = "calculatePattern"
    /\ call.done
    /\ Len(call.guess) = WORD_LEN
    /\ Len(call.answer) = WORD_LEN

\* C1: for every guess g and target t of 5 letters and every letter c, the
\* pattern marks exactly min(count(g,c), count(t,c)) of the positions of g
\* holding c GREEN or YELLOW, and the GREEN positions of c are exactly the
\* positions i with g[i] = t[i] = c.
C1_MarksPerLetter ==
    PatternCallDone =>
        \A c \in Range(call.guess) \cup Range(call.answer) :
            /\ Cardinality(Marked(call.guess, call.ret, c, {GREEN, YELLOW}))
                  = Min(Cardinality(PositionsOf(call.guess, c)),
                        Cardinality(PositionsOf(call.answer, c)))
            /\ Marked(call.guess, call.ret, c, {GREEN})
                  = PositionsOf(call.guess, c) \cap PositionsOf(call.answer, c)

\* a letter held 3 times by the guess and twice by the target, marked green
\* once, yellow once and grey once
C1_Witness ==
    /\ PatternCallDone
    /\ \E c \in Range(call.guess) :
          /\ Cardinality(PositionsOf(call.guess, c)) = 3
          /\ Cardinality(PositionsOf(call.answer, c)) = 2
          /\ Cardinality(Marked(call.guess, call.ret, c, {GREEN})) = 1
          /\ Cardinality(Marked(call.guess, call.ret, c, {YELLOW})) = 1
          /\ Cardinality(Marked(call.guess, call.ret, c, {GREY})) = 1

abbey == <<"a", "b", "b", "e", "y">>
billy == <<"b", "i", "l", "l", "y">>

\* C2: for every guess g and target t of 5 letters and every letter c, among
\* the positions of g that hold c and are not GREEN the YELLOW ones are exactly
\* the leftmost k, k = min(count(g,c), count(t,c)) - (GREEN positions of c),
\* and the rest are GREY; a letter twice in g and once in t gets exactly one
\* GREEN-or-YELLOW mark and one GREY mark; "abbey" against "billy" gives
\* GREY, YELLOW, GREY, GREY, GREEN.
C2_LeftmostYellows ==
    PatternCallDone =>
        /\ \A c \in Range(call.guess) :
              LET notGreen == PositionsOf(call.guess, c) \ Marked(call.guess, call.ret, c, {GREEN})
                  k == Min(Cardinality(PositionsOf(call.guess, c)),
                           Cardinality(PositionsOf(call.answer, c)))
                          - Cardinality(Marked(call.guess, call.ret, c, {GREEN}))
              IN  /\ \A i \in notGreen :
                        call.ret[i] = IF Cardinality({j \in notGreen : j < i}) < k
                                      THEN YELLOW ELSE GREY
                  /\ (/\ Cardinality(PositionsOf(call.guess, c)) = 2
                      /\ Cardinality(PositionsOf(call.answer, c)) = 1)
                        => /\ Cardinality(Marked(call.guess, call.ret, c, {GREEN, YELLOW})) = 1
                           /\ Cardinality(Marked(call.guess, call.ret, c, {GREY})) = 1
        /\ (call.guess = abbey /\ call.answer = billy)
              => call.ret = <<GREY, YELLOW, GREY, GREY, GREEN>>

\* "abbey" against "billy": the first b is yellow, the second grey
C2_Witness ==
    /\ PatternCallDone
    /\ call.guess = abbey
    /\ call.answer = billy
    /\ call.ret[2] = YELLOW
    /\ call.ret[3] = GREY

-----------------------------------------------------------------------------
(* Properties of pruneList (checked under SpecPrune) *)

\* word gives the pattern colors against answer, at all WORD_LEN positions
Reproduces(word, answer, colors) ==
    LET pattern == patternOf(word, answer)
    IN  \A i \in 1..WORD_LEN : at(pattern, i) = colors[i]

\* the index of x in a list without repetition
IndexOf(list, x) == CHOOSE i \in 1..Len(list) : list[i] = x

\* ret holds words of list, each once, in the order they have in list
InOrderOf(ret, list) ==
    /\ Range(ret) \subseteq Range(list)
    /\ \A i, j \in 1..Len(ret) : i < j => IndexOf(list, ret[i]) < IndexOf(list, ret[j])

\* C3: for every non-empty candidate list C, guess g and pattern p of 5
\* colors, pruneList(C, g, p) holds exactly the words a of C, in their
\* original order, for which calculatePattern(g, a) equals p at all 5
\* positions.
C3_PruneExact ==
    (call.fn = "pruneList" /\ call.done /\ Len(call.remainingAnswers) > 0) =>
        /\ Range(call.ret)
              = {a \in Range(call.remainingAnswers) : Reproduces(call.word, a, call.colors)}
        /\ InOrderOf(call.ret, call.remainingAnswers)

\* a call that keeps two candidates and drops a third
C3_Witness ==
    /\ call.fn = "pruneList"
    /\ call.done
    /\ Len(call.remainingAnswers) = 3
    /\ Len(call.ret) = 2
    /\ call.ret[1] = call.remainingAnswers[1]
    /\ call.ret[2] = call.remainingAnswers[3]

-----------------------------------------------------------------------------
(* Properties of the session (checked under Spec) *)

\* C4: in every session state reachable by newGame followed by any sequence
\* of guess calls, valid or not, the solution is one of remainingAnswers.
C4_SolutionRemains ==
    \E i \in 1..Len(game.remainingAnswers) : game.remainingAnswers[i] = game.solution

\* an accepted guess has dropped a candidate and left the solution among two
C4_Witness ==
    /\ lastOp = "guess"
    /\ Len(game.guesses) = Len(prevGame.guesses) + 1
    /\ Len(game.remainingAnswers) = 2
    /\ Len(prevGame.remainingAnswers) = 3
    /\ game.solution \in Range(game.remainingAnswers)

\* the answers of the dictionary that reproduce every record of a history
ConsistentAnswers(guesses) ==
    {a \in Range(possibleAnswers) :
        \A k \in 1..Len(guesses) : patternOf(guesses[k].word, a) = guesses[k].colors}

\* C5: in every reachable session state the candidate set is exactly the set
\* of answers a of the dictionary with calculatePattern(w, a) = p for every
\* record (w, p) of the history.
C5_CandidatesAreTheConsistent ==
    Range(game.remainingAnswers) = ConsistentAnswers(game.guesses)

\* two guesses have narrowed the candidates to one, and the game is still on
C5_Witness ==
    /\ Len(game.guesses) = 2
    /\ Len(game.remainingAnswers) = 1
    /\ game.state = PLAYING
    /\ game.guesses[1].word # game.guesses[2].word

\* the word of the last guess call, lower-cased, is a word of 5 letters in the
\* answers or the guess vocabulary
LastWordInDictionary ==
    /\ Len(lastWord) = WORD_LEN
    /\ toLowerCase(lastWord) \in Range(possibleAnswers) \cup Range(allowedGuesses)

\* the pattern of the last guessed word against the solution
LastPattern == patternOf(toLowerCase(lastWord), prevGame.solution)

\* C6: for a session in state PLAYING and a word of the dictionary, guess
\* sets the state to WON if the pattern against the solution is all GREEN
\* (on the 6th guess too), to LOST if it is not and this is the 6th accepted
\* guess, and leaves it PLAYING otherwise.
C6_StateAfterGuess ==
    (lastOp = "guess" /\ prevGame.state = PLAYING /\ LastWordInDictionary) =>
        LET pattern == LastPattern
        IN  game.state =
                IF \A i \in 1..WORD_LEN : pattern[i] = GREEN THEN WON
                ELSE IF Len(prevGame.guesses) + 1 = 6 THEN LOST
                ELSE PLAYING

\* the 6th guess wins
C6_Witness ==
    /\ lastOp = "guess"
    /\ prevGame.state = PLAYING
    /\ Len(prevGame.guesses) = 5
    /\ game.state = WON

\* the words of list that reproduce colors against word, in the order of list
RECURSIVE Filtered(_, _, _)
Filtered(list, word, colors) ==
    IF list = <<>> THEN <<>>
    ELSE (IF Reproduces(word, Head(list), colors) THEN <<Head(list)>> ELSE <<>>)
            \o Filtered(Tail(list), word, colors)

\* C7: for a session in state PLAYING and a word of the dictionary, guess
\* returns a session whose history is the old one with one record appended,
\* (lower-cased word, pattern of that word against the solution), whose
\* candidates are the old ones filtered by that word and pattern, whose error
\* is null and whose solution is unchanged.
C7_AcceptedGuess ==
    (lastOp = "guess" /\ prevGame.state = PLAYING /\ LastWordInDictionary) =>
        LET word == toLowerCase(lastWord)
            pattern == LastPattern
        IN  /\ game.guesses = prevGame.guesses \o << [word |-> word, colors |-> pattern] >>
            /\ game.remainingAnswers = Filtered(prevGame.remainingAnswers, word, pattern)
            /\ game.error = NULL
            /\ game.solution = prevGame.solution

\* a word typed in upper case is accepted as the second guess of a session
\* that showed an error
C7_Witness ==
    /\ lastOp = "guess"
    /\ prevGame.state = PLAYING
    /\ prevGame.error # NULL
    /\ Len(prevGame.guesses) = 1
    /\ lastWord # toLowerCase(lastWord)
    /\ Len(game.guesses) = 2
    /\ game.error = NULL

\* C8: for every session and every word that is not of 5 letters or not in
\* the answers or the guess vocabulary (whatever its letter case), guess
\* returns the session with the same solution, history, candidates and state,
\* and a non-null error.
C8_RejectedGuess ==
    (lastOp = "guess" /\ ~LastWordInDictionary) =>
        /\ game.solution = prevGame.solution
        /\ game.guesses = prevGame.guesses
        /\ game.remainingAnswers = prevGame.remainingAnswers
        /\ game.state = prevGame.state
        /\ game.error # NULL

\* a short word is rejected on a finished game that showed no error
C8_Witness ==
    /\ lastOp = "guess"
    /\ Len(lastWord) < WORD_LEN
    /\ prevGame.state = LOST
    /\ prevGame.error = NULL
    /\ game.error # NULL
    /\ game.guesses = prevGame.guesses

\* C9: once the state is WON or LOST no guess call, whatever the word,
\* changes the solution, the history, the candidates or the state.
C9_TerminalAbsorbing ==
    (lastOp = "guess" /\ prevGame.state \in {WON, LOST}) =>
        /\ game.solution = prevGame.solution
        /\ game.guesses = prevGame.guesses
        /\ game.remainingAnswers = prevGame.remainingAnswers
        /\ game.state = prevGame.state

\* the solution is guessed on a lost game, which stays lost
C9_Witness ==
    /\ lastOp = "guess"
    /\ prevGame.state = LOST
    /\ lastWord = prevGame.solution
    /\ game.state = LOST
    /\ Len(game.guesses) = 6

\* C10, as claimed: a guess on a session that is WON or LOST takes the "game
\* is already over" path and returns the session unchanged, for every word,
\* in the dictionary or not.
C10_AsClaimed ==
    (lastOp = "guess" /\ prevGame.state \in {WON, LOST}) =>
        /\ alerted
        /\ game = prevGame

\* C10, amended: a guess on a session that is WON or LOST takes the "game is
\* already over" path and returns the session unchanged when the word is in
\* the dictionary; a word that is not gets the outcome of validation, the
\* error "Not in word list", and the path is not taken.
C10_OverPathForDictionaryWords ==
    (lastOp = "guess" /\ prevGame.state \in {WON, LOST}) =>
        IF LastWordInDictionary
        THEN alerted /\ game = prevGame
        ELSE ~alerted /\ game = [prevGame EXCEPT !.error = NOT_IN_WORD_LIST]

\* a dictionary word is guessed on a won game that shows an error
C10_Witness ==
    /\ lastOp = "guess"
    /\ prevGame.state = WON
    /\ prevGame.error # NULL
    /\ LastWordInDictionary
    /\ alerted
    /\ game = prevGame

\* C11: across any sequence of guess calls on a session created by newGame
\* the candidates never grow: after each call they are a subset of the
\* candidates before it, and they start as the full answer dictionary.
C11_CandidatesNeverGrow ==
    /\ lastOp = "guess" =>
          /\ Range(game.remainingAnswers) \subseteq Range(prevGame.remainingAnswers)
          /\ Len(game.remainingAnswers) <= Len(prevGame.remainingAnswers)
    /\ lastOp \in {"init", "newGame"} => game.remainingAnswers = possibleAnswers

\* a second guess is accepted that fits more answers than the first left
C11_Witness ==
    /\ lastOp = "guess"
    /\ Len(game.guesses) = 2
    /\ Len(prevGame.guesses) = 1
    /\ Len(prevGame.remainingAnswers) = 1
    /\ Cardinality(ConsistentAnswers(<<game.guesses[2]>>)) = 2
    /\ game.remainingAnswers = prevGame.remainingAnswers

\* C12: newGame returns a session whose solution is a member of the answer
\* dictionary, whose candidates are the full answer dictionary, whose history
\* is empty, whose state is PLAYING and whose error is null.
C12_NewGame ==
    lastOp \in {"init", "newGame"} =>
        /\ game.solution \in Range(possibleAnswers)
        /\ game.remainingAnswers = possibleAnswers
        /\ game.guesses = <<>>
        /\ game.state = PLAYING
        /\ game.error = NULL

\* a new game is started and its solution is the last answer of the dictionary
C12_Witness ==
    /\ lastOp = "newGame"
    /\ game.solution = possibleAnswers[Len(possibleAnswers)]
    /\ game.remainingAnswers = possibleAnswers
    /\ game.guesses = <<>>

AnalyzeCallDone == call.fn = "analyze" /\ call.done

\* the answers of a list, by position, that give the same pattern as the i-th
SamePattern(g, C, i) ==
    {j \in 1..Len(C) : calculatePattern(g, C[j]) = calculatePattern(g, C[i])}

\* h is num / den rounded to hundredths, halves up
RoundsTo(h, num, den) ==
    /\ 2 * h * den <= 2 * Scale * num + den
    /\ 2 * Scale * num + den < 2 * (h + 1) * den

\* C13: for every guess g (read in lower case) and non-empty candidate list C,
\* analyze(g, C) returns buckets = the number of distinct patterns
\* calculatePattern(g, a) over a in C, largestBucket = the largest number of
\* candidates sharing one pattern, and expectedRemaining = the sum over the
\* buckets of count squared over |C|, less 1/|C| when g is in C, the
\* subtraction made before the rounding to 2 decimals.
C13_Analyze ==
    AnalyzeCallDone =>
        LET g == toLowerCase(call.guess)
            C == call.remainingAnswers
            n == Len(C)
            same == [i \in 1..n |-> Cardinality(SamePattern(g, C, i))]
            pairs == Cardinality({p \in (1..n) \X (1..n) :
                                     calculatePattern(g, C[p[1]]) = calculatePattern(g, C[p[2]])})
            member == IF g \in Range(C) THEN 1 ELSE 0
        IN  /\ call.ret.buckets = Cardinality({calculatePattern(g, C[i]) : i \in 1..n})
            /\ \E i \in 1..n : call.ret.largestBucket = same[i]
            /\ \A i \in 1..n : call.ret.largestBucket >= same[i]
            /\ RoundsTo(call.ret.expectedRemaining, pairs - member, n)

\* analyze is called with a candidate of a list of three that falls into a
\* bucket of two: (5 - 1) / 3 is 1.33, while 1.67 - 0.33 would be 1.34
C13_Witness ==
    /\ AnalyzeCallDone
    /\ Len(call.remainingAnswers) = 3
    /\ toLowerCase(call.guess) \in Range(call.remainingAnswers)
    /\ call.ret.buckets = 2
    /\ call.ret.largestBucket = 2
    /\ call.ret.expectedRemaining = 133

RECURSIVE SumTo(_, _)
SumTo(f, n) == IF n = 0 THEN 0 ELSE f[n] + SumTo(f, n - 1)

\* the size of the candidate list after guessing g when the secret is s
PostGuessSize(C, g, s) ==
    IF s = g THEN 0 ELSE Len(pruneList(C, g, calculatePattern(g, s)))

\* C14: for every guess g (read in lower case) and non-empty candidate list C,
\* the unrounded expectedRemaining of analyze(g, C) times |C| is the sum over
\* every secret s in C of the post-guess size: 0 when s = g, and otherwise
\* the length of pruneList(C, g, calculatePattern(g, s)).
C14_TrueAverage ==
    AnalyzeCallDone =>
        LET g == toLowerCase(call.guess)
            C == call.remainingAnswers
            sizes == [i \in 1..Len(C) |-> PostGuessSize(C, g, C[i])]
        IN  /\ call.unrounded.den = Len(C)
            /\ call.unrounded.num = SumTo(sizes, Len(C))

\* the guess is one of several candidates, and another candidate shares no
\* pattern with it
C14_Witness ==
    /\ AnalyzeCallDone
    /\ Len(call.remainingAnswers) = 3
    /\ call.guess \in Range(call.remainingAnswers)
    /\ call.unrounded.num = 4
    /\ \E i \in 1..3 : PostGuessSize(call.remainingAnswers, call.guess,
                                     call.remainingAnswers[i]) = 0

\* C15: for every guess g and non-empty candidate list C,
\* analyze(g, C).expectedRemaining is at most |C|, and it is |C| only when
\* every candidate gives the same pattern against g (a single bucket).
C15_AtMostSize ==
    AnalyzeCallDone =>
        /\ call.ret.expectedRemaining <= Len(call.remainingAnswers) * Scale
        /\ call.ret.expectedRemaining = Len(call.remainingAnswers) * Scale
              => call.ret.buckets = 1

\* the bound is met: several candidates, one bucket, the guess not among them
C15_Witness ==
    /\ AnalyzeCallDone
    /\ Len(call.remainingAnswers) = 2
    /\ call.ret.buckets = 1
    /\ call.ret.expectedRemaining = 2 * Scale

\* the guess is a word of the dictionary, in either case
DictionaryGuess(g) == inWordList(toLowerCase(g))

\* C16 as stated: every dictionary guess is informative when the candidates
\* are more than one.
C16_AsClaimed ==
    (AnalyzeCallDone /\ DictionaryGuess(call.guess) /\ Len(call.remainingAnswers) > 1)
        => helpfulGuess(call.ret, call.remainingAnswers)

\* C16: a guess is informative (helpfulGuess) exactly when the candidates do
\* not all give the same pattern against it or the guess is itself a
\* candidate; so every guess that is a candidate is informative, and a guess
\* that gives one pattern on every candidate is not, whatever their number.
C16_InformativeIffSplitsOrCandidate ==
    AnalyzeCallDone =>
        (helpfulGuess(call.ret, call.remainingAnswers)
            <=> \/ call.ret.buckets > 1
                \/ toLowerCase(call.guess) \in Range(call.remainingAnswers))

\* a dictionary guess gives one pattern on two candidates and is not informative
C16_Witness ==
    /\ AnalyzeCallDone
    /\ DictionaryGuess(call.guess)
    /\ Len(call.remainingAnswers) = 2
    /\ call.ret.buckets = 1
    /\ ~helpfulGuess(call.ret, call.remainingAnswers)

TopCallDone == call.fn = "topGuesses" /\ call.done

\* the value the ranking is by: analyze(w, C).expectedRemaining
ValueIn(C, w) == analyze(w, C).expectedRemaining

\* entry a comes before entry b in the stable ascending order of C
Before(C, a, b) ==
    \/ a.expectedRemaining < b.expectedRemaining
    \/ /\ a.expectedRemaining = b.expectedRemaining
       /\ IndexOf(C, a.word) < IndexOf(C, b.word)

TopGuessesTable == [C \in CandidateLists |-> topGuesses(C)]

\* C19: in every session reached by newGame and any sequence of guess calls,
\* topGuesses(game.remainingAnswers) returns the precomputed opening table if
\* and only if no guess has been accepted yet (the history is empty); after an
\* accepted guess the ranking is computed from the current candidates.
C19_TableIffNoGuess ==
    LET top == TopGuessesTable[game.remainingAnswers]
    IN  /\ (top = preComputed) <=> (game.guesses = <<>>)
        /\ game.guesses # <<>> =>
              \A k \in 1..Len(top) : top[k].word \in Range(game.remainingAnswers)

\* the first accepted guess is a word of the guess vocabulary that is no
\* answer, and the ranking that follows is computed
C19_Witness ==
    /\ lastOp = "guess"
    /\ Len(game.guesses) = 1
    /\ game.guesses[1].word \in Range(allowedGuesses)
    /\ game.guesses[1].word \notin Range(possibleAnswers)
    /\ topGuesses(game.remainingAnswers) # preComputed
    /\ Len(topGuesses(game.remainingAnswers)) = Len(game.remainingAnswers)

\* C20: in cheat mode, when the entered word and colors match no remaining
\* candidate (analyzeCheat returns an empty list), the guess is rejected with
\* an error and the session does not advance: history, candidates and status
\* are as before the attempt.
C20_NoMatchRejected ==
    (lastOp = "cheatEnter" /\ call.fn = "analyzeCheat" /\ call.ret = <<>>) =>
        /\ game.error = NO_MATCHES
        /\ game.guesses = prevGame.guesses
        /\ game.remainingAnswers = prevGame.remainingAnswers
        /\ game.state = prevGame.state

\* after an accepted guess, a word with all five colors set matches none of
\* the candidates left
C20_Witness ==
    /\ lastOp = "cheatEnter"
    /\ call.fn = "analyzeCheat"
    /\ call.ret = <<>>
    /\ ~includes(call.colors, EMPTY)
    /\ Len(game.guesses) = 1
    /\ game.error = NO_MATCHES

\* C21: in sessions advanced in cheat mode, the session's solution (the
\* word shown when the game is LOST) is one of the candidates in every
\* reachable state.
C21_SolutionAmongCandidates ==
    game.solution \in Range(game.remainingAnswers)

\* the guess entered in cheat mode was taken: the history grew
CheatAccepted ==
    /\ lastOp = "cheatEnter"
    /\ Len(game.guesses) = Len(prevGame.guesses) + 1

\* C22: every accepted guess clears the session's error, in cheat mode too:
\* after a cheat-mode guess is accepted the error is null, whatever error was
\* pending before.
C22_AcceptedClearsError ==
    CheatAccepted => game.error = NULL

\* C23: the deferred clearing of an error leaves the game unaffected: a timer
\* firing changes only the error of the session the app holds, never its
\* solution, history, candidates or status.
C23_TimerChangesOnlyError ==
    lastOp = "timer" =>
        /\ game.solution = prevGame.solution
        /\ game.guesses = prevGame.guesses
        /\ game.remainingAnswers = prevGame.remainingAnswers
        /\ game.state = prevGame.state

\* the session is the one held before the rejected guess, its error cleared
\* and no timer left
ClearedAsBefore ==
    /\ timers = <<>>
    /\ game.error = NULL
    /\ game.guesses = rejected.guesses
    /\ game.remainingAnswers = rejected.remainingAnswers
    /\ game.state = rejected.state

\* a step the user takes: a key, a click on a tile or on New Game
UserStep ==
    \/ StartNewGame
    \/ KeyPress
    \/ Backspace
    \/ ColorClick
    \/ CheatEnter

\* C24: after a rejected guess has set the error, if the user does nothing
\* more the error is eventually cleared (timers fire), and the session then
\* has the history, candidates and status it had before the rejected guess:
\* either the user keeps acting, or from some time on a rejected guess that
\* was the user's last step has its error cleared and the session as before.
C24_RejectedEventuallyCleared ==
    \/ []<><<UserStep>>_vars
    \/ <>[](rejected # NoSession => ClearedAsBefore)

\* the timer of a rejected guess has run with the user idle, after an
\* earlier guess was taken
C24_Witness ==
    /\ rejected # NoSession
    /\ lastOp = "timer"
    /\ Len(game.guesses) = 1
    /\ ClearedAsBefore

\* C25: with the candidates crane, crank, crave, cramp, crazy, guessing crave
\* is either correct or leaves exactly one possible answer: for every secret
\* of the five other than crave, pruneList(candidates, crave,
\* calculatePattern(crave, secret)) has exactly one word.
C25_CraveLeavesOne ==
    ( /\ call.fn = "pruneList"
      /\ call.done
      /\ call.remainingAnswers = HelpAnswers
      /\ call.word = crave
      /\ call.secret # crave )
    => Len(call.ret) = 1

\* C26: with the candidates crane, crank, crave, cramp, crazy, crave is an
\* optimal guess: no word of the five has a strictly lower
\* analyze(word, candidates).expectedRemaining than crave, and topGuesses
\* puts no entry of a strictly lower value ahead of crave.
C26_CraveOptimal ==
    /\ ( /\ call.fn = "analyze"
         /\ call.done
         /\ call.remainingAnswers = HelpAnswers )
       => ~(call.ret.expectedRemaining < analyze(crave, HelpAnswers).expectedRemaining)
    /\ ( /\ call.fn = "topGuesses"
         /\ call.done
         /\ call.remainingAnswers = HelpAnswers )
       => \A i, j \in 1..Len(call.ret) :
              (call.ret[j].word = crave /\ i < j)
                  => ~(call.ret[i].expectedRemaining < call.ret[j].expectedRemaining)

\* C27: for every word t of 5 letters, calculatePattern(t, t) is GREEN at
\* all 5 positions.
C27_Reflexive ==
    (PatternCallDone /\ call.guess = call.answer) =>
        \A i \in 1..WORD_LEN : call.ret[i] = GREEN

\* a word with a letter twice scored against itself
C27_Witness ==
    /\ PatternCallDone
    /\ call.guess = call.answer
    /\ \E c \in Range(call.guess) : Cardinality(PositionsOf(call.guess, c)) = 2
    /\ allGreen(call.ret)

\* C28: for every guess and target of 5 letters calculatePattern returns
\* exactly 5 colors, each of them GREEN, YELLOW or GREY: EMPTY is never
\* produced and no position is left unset.
C28_FiveColors ==
    PatternCallDone =>
        /\ DOMAIN call.ret = 1..WORD_LEN
        /\ \A i \in 1..WORD_LEN : call.ret[i] \in {GREEN, YELLOW, GREY}

\* a pattern with all three colors, one grey of them for a letter the target
\* holds (its yellows used up)
C28_Witness ==
    /\ PatternCallDone
    /\ {call.ret[i] : i \in 1..WORD_LEN} = {GREEN, YELLOW, GREY}
    /\ \E i \in 1..WORD_LEN :
          /\ call.ret[i] = GREY
          /\ hasLetter(call.answer, call.guess[i])

\* what calculatePattern returned is a pattern: a sequence of colors
ReturnedPattern ==
    /\ DOMAIN call.ret = 1..Len(call.ret)
    /\ \A i \in DOMAIN call.ret : call.ret[i] \in {GREEN, YELLOW, GREY}

\* C29: called with a guess and a target of different lengths,
\* calculatePattern signals an input error instead of returning a pattern.
C29_MismatchSignalsError ==
    ( /\ call.fn = "calculatePattern"
      /\ call.done
      /\ Len(call.guess) # Len(call.answer) )
    => ~ReturnedPattern

\* C30: called with an empty (or null) candidate list, pruneList returns
\* that input unchanged for every word and pattern, without evaluating any
\* pattern.
C30_EmptyListReturned ==
    ( /\ call.fn = "pruneList"
      /\ call.done
      /\ (call.isNull \/ Len(call.remainingAnswers) = 0) )
    => /\ call.retNull = call.isNull
       /\ call.ret = call.remainingAnswers
       /\ call.scored = 0

\* an empty list (not null) pruned with a word and the pattern an answer
\* gives it
C30_Witness ==
    /\ call.fn = "pruneList"
    /\ call.done
    /\ ~call.isNull
    /\ call.remainingAnswers = <<>>
    /\ call.word = possibleAnswers[1]
    /\ call.colors = patternOf(call.word, possibleAnswers[2])
    /\ call.ret = <<>>

\* the last record of the history is all GREEN
LastAllGreen ==
    /\ Len(game.guesses) > 0
    /\ allGreen(game.guesses[Len(game.guesses)].colors)

\* C31: in every session reachable by newGame and guess calls, status and
\* history agree: at most 6 records; WON exactly when the last record is all
\* GREEN; LOST exactly when there are 6 records and the last is not all
\* GREEN; PLAYING exactly when there are fewer than 6 records and none is
\* all GREEN.
C31_StatusAgreesWithHistory ==
    /\ Len(game.guesses) <= 6
    /\ game.state \in {PLAYING, WON, LOST}
    /\ (game.state = WON) <=> LastAllGreen
    /\ (game.state = LOST) <=> (Len(game.guesses) = 6 /\ ~LastAllGreen)
    /\ (game.state = PLAYING) <=>
          /\ Len(game.guesses) < 6
          /\ \A i \in 1..Len(game.guesses) : ~allGreen(game.guesses[i].colors)

\* a session lost by its sixth guess
C31_Witness ==
    /\ lastOp = "guess"
    /\ prevGame.state = PLAYING
    /\ game.state = LOST
    /\ Len(game.guesses) = 6
    /\ ~LastAllGreen

\* the record cheat mode appended is the one guess appended, the word equal
\* up to letter case
SameRecord(record, cheatRecord) ==
    /\ cheatRecord.colors = record.colors
    /\ toLowerCase(cheatRecord.word) = record.word

\* C33: cheat mode refines normal play: from a session in play, entering a
\* dictionary word with the colors calculatePattern(word, s) in cheat mode
\* is accepted and gives the candidates, the status and the appended pattern
\* (the recorded word equal up to letter case) that guess gives in a session
\* whose solution is s, for every candidate s.
C33_CheatRefinesGuess ==
    (lastOp = "guess" /\ call.fn = "handleWordEntered") =>
        /\ call.accepted
        /\ call.remainingAnswers = game.remainingAnswers
        /\ call.state = game.state
        /\ Len(game.guesses) = Len(prevGame.guesses) + 1
        /\ call.count = Len(game.guesses)
        /\ SameRecord(game.guesses[Len(game.guesses)], call.appended)

\* a word typed in upper case that drops a candidate and leaves the game on
C33_Witness ==
    /\ lastOp = "guess"
    /\ call.fn = "handleWordEntered"
    /\ call.accepted
    /\ game.state = PLAYING
    /\ Len(game.remainingAnswers) < Len(prevGame.remainingAnswers)
    /\ call.appended.word # game.guesses[Len(game.guesses)].word

\* guess took a word that is one of the candidates of a session in play, and
\* the game is not won
CandidateGuessedNoWin ==
    /\ lastOp = "guess"
    /\ prevGame.state = PLAYING
    /\ Len(game.guesses) = Len(prevGame.guesses) + 1
    /\ game.state # WON
    /\ includes(prevGame.remainingAnswers, toLowerCase(lastWord))

\* C34: for every session in play, an accepted guess that does not win and
\* whose word is one of the candidates strictly shrinks the candidate set:
\* the guessed word is removed from it.
C34_CandidateGuessRemoved ==
    CandidateGuessedNoWin =>
        /\ ~includes(game.remainingAnswers, toLowerCase(lastWord))
        /\ Len(game.remainingAnswers) < Len(prevGame.remainingAnswers)

\* a candidate is guessed, the game goes on, and another candidate is left
C34_Witness ==
    /\ CandidateGuessedNoWin
    /\ game.state = PLAYING
    /\ Len(prevGame.remainingAnswers) = Len(possibleAnswers)
    /\ Len(game.remainingAnswers) > 0

\* C35: for every guess g and target t of 5 letters, calculatePattern(g, t)
\* is all GREEN only if g = t; hence a session becomes WON only by a guess
\* whose word is the solution, and after a winning guess the candidates are
\* exactly the solution.
C35_GreenOnlyForSolution ==
    /\ (PatternCallDone /\ allGreen(call.ret)) => call.guess = call.answer
    /\ (lastOp = "guess" /\ prevGame.state = PLAYING /\ game.state = WON) =>
          /\ toLowerCase(lastWord) = game.solution
          /\ game.remainingAnswers = <<game.solution>>

\* a game won by its third guess, two candidates dropped before
C35_Witness ==
    /\ lastOp = "guess"
    /\ prevGame.state = PLAYING
    /\ game.state = WON
    /\ Len(game.guesses) = 3
    /\ Len(prevGame.remainingAnswers) = 1
    /\ allGreen(game.guesses[3].colors)

\* Enter was pressed in cheat mode with a tile of the typed word still
\* without a color (the word and its colors are on the grid as they were)
EnteredWithEmpty ==
    /\ lastOp = "cheatEnter"
    /\ Len(input) = WORD_LEN
    /\ includes(cheatColors, EMPTY)

\* C36: in cheat mode, Enter pressed while one of the 5 colors of the typed
\* word is still EMPTY is rejected with an error, and the history, the
\* candidates and the status are unchanged; a record with an EMPTY color is
\* never appended to the history.
C36_EmptyColorRejected ==
    /\ EnteredWithEmpty =>
          /\ game.error = SET_ALL_COLORS
          /\ game.guesses = prevGame.guesses
          /\ game.remainingAnswers = prevGame.remainingAnswers
          /\ game.state = prevGame.state
    /\ \A k \in 1..Len(game.guesses) : ~includes(game.guesses[k].colors, EMPTY)

\* after an accepted guess, Enter is pressed with the first two tiles set and
\* the other three not
C36_Witness ==
    /\ EnteredWithEmpty
    /\ Len(game.guesses) = 1
    /\ cheatColors[1] # EMPTY
    /\ cheatColors[2] # EMPTY
    /\ cheatColors[3] = EMPTY
    /\ game.error = SET_ALL_COLORS

\* C32: in every session reached through newGame, guess and the cheat-mode
\* handler the candidate set is non-empty (so that pruneList is never given
\* an empty list and nothing is divided by a candidate count of zero).
C32_CandidatesNonEmpty == Len(game.remainingAnswers) > 0

\* C37: guess is never called with a word of the dictionary on a session
\* that is WON or LOST: its "Game is already over" alert is never raised.
C37_NoGuessOnTerminal ==
    call.fn = "guess" =>
        ~(call.state \in {WON, LOST} /\ inWordList(toLowerCase(call.word)))

=============================================================================
